---- MODULE Spec2Model ----
\* Model of earthstar-rs: self-certifying addresses (src/src/address.rs) and
\* the document validation pipeline (src/src/document.rs).
\*
\* Representation
\*   String            a sequence of characters; a character is a TLA+ string
\*                     ("a", "/", "\t", and "U+00E9" for a two-byte UTF-8
\*                     scalar, "U+007F" for DEL).
\*   text              run-length encoded: a sequence of [c, n] runs.
\*   Option<T>         <<>> for None, <<v>> for Some(v).
\*   u128              a natural number as little-endian limbs in base 1000
\*                     (the values exceed 32-bit integers).
\*   i32               an integer in -2^31 .. 2^31-1 with explicit wrapping.
\*   SystemTime        [pre, secs, nanos]: secs (limbs) and nanos away from
\*                     UNIX_EPOCH, before it when pre is TRUE.
\*   base32 / SHA-256 / Ed25519 are opaque and injective: an encoded string is
\*                     [first, valid, n, data] = first character, whether the
\*                     remainder decodes as BASE32_NOPAD, total length, and
\*                     the bytes it encodes.
EXTENDS Integers, Sequences, FiniteSets, TLC

VARIABLES overflow_checks, identity, share, args, orig, result, pc

vars == <<overflow_checks, identity, share, args, orig, result, pc>>

-----------------------------------------------------------------------------
\* Bounds of the exploration.

\* A submitted document differs from a well-formed one in at most this many
\* constructor arguments.
MaxDeviations == 2

-----------------------------------------------------------------------------
\* Characters (char::is_ascii_* of the standard library).

Lowercase == {"a", "b", "c", "d", "e", "f", "g", "h", "i", "j", "k", "l", "m",
              "n", "o", "p", "q", "r", "s", "t", "u", "v", "w", "x", "y", "z"}

Uppercase == {"A", "B", "C", "H"}

Digits == {"0", "1", "2", "3", "4", "5", "6", "7", "8", "9"}

\* "U+0022" is the double quote, "U+005C" the backslash, "U+0060" the backtick.
Punctuation == {"!", "U+0022", "#", "$", "%", "&", "(", ")", "*", "+", ",",
                "-", ".", "/", ":", ";", "<", "=", ">", "?", "@", "[", "U+005C",
                "]", "^", "_", "U+0060", "{", "|", "}", "~"}

AsciiWhitespace == {" ", "\t", "\n", "\r", "\f"}

AsciiControl == {"\t", "\n", "\r", "\f", "U+007F"}

NonAscii == {"U+00E9"}

is_ascii(c) == c \notin NonAscii

is_ascii_whitespace(c) == c \in AsciiWhitespace

is_ascii_control(c) == c \in AsciiControl

is_ascii_lowercase(c) == c \in Lowercase

is_ascii_digit(c) == c \in Digits

is_ascii_alphanumeric(c) == c \in Lowercase \cup Uppercase \cup Digits

\* Bytes of the UTF-8 encoding of one character.
len_utf8(c) == IF c \in NonAscii THEN 2 ELSE 1

-----------------------------------------------------------------------------
\* Strings.

\* str::len: the length in bytes (one per character, one more for each
\* two-byte character).
str_len(s) == Len(s) + Cardinality({i \in 1..Len(s) : len_utf8(s[i]) = 2})

str_is_ascii(s) == \A i \in 1..Len(s) : is_ascii(s[i])

\* str::contains with a string pattern.
str_contains(s, pat) ==
    \E i \in 0..(Len(s) - Len(pat)) : SubSeq(s, i + 1, i + Len(pat)) = pat

\* s.chars().nth(0).unwrap_or_default(): U+0000 when the string is empty.
first_char_or_default(s) == IF s = <<>> THEN "U+0000" ELSE s[1]

RECURSIVE text_len(_)
\* Bytes of a run-length encoded text.
text_len(t) == IF t = <<>> THEN 0
               ELSE len_utf8(Head(t).c) * Head(t).n + text_len(Tail(t))

-----------------------------------------------------------------------------
\* Natural numbers beyond the machine integers: little-endian limbs, base 1000,
\* no leading zero limb (zero is <<>>).

Base == 10 * 10 * 10

RECURSIVE BigNorm(_)
BigNorm(a) == IF a = <<>> THEN <<>>
              ELSE IF a[Len(a)] = 0 THEN BigNorm(SubSeq(a, 1, Len(a) - 1))
              ELSE a

RECURSIVE BigFromInt(_)
BigFromInt(n) == IF n = 0 THEN <<>> ELSE <<n % Base>> \o BigFromInt(n \div Base)

RECURSIVE BigAddC(_, _, _)
BigAddC(a, b, carry) ==
    IF a = <<>> /\ b = <<>> THEN (IF carry = 0 THEN <<>> ELSE <<carry>>)
    ELSE LET x == IF a = <<>> THEN 0 ELSE Head(a)
             y == IF b = <<>> THEN 0 ELSE Head(b)
             s == x + y + carry
         IN  <<s % Base>> \o BigAddC(IF a = <<>> THEN <<>> ELSE Tail(a),
                                     IF b = <<>> THEN <<>> ELSE Tail(b),
                                     s \div Base)

BigAdd(a, b) == BigAddC(a, b, 0)

RECURSIVE BigMulLimb(_, _, _)
BigMulLimb(a, m, carry) ==
    IF a = <<>> THEN BigFromInt(carry)
    ELSE LET p == Head(a) * m + carry
         IN  <<p % Base>> \o BigMulLimb(Tail(a), m, p \div Base)

RECURSIVE BigMul(_, _)
BigMul(a, b) ==
    IF a = <<>> \/ b = <<>> THEN <<>>
    ELSE LET rest == BigMul(a, Tail(b))
         IN  BigAdd(BigNorm(BigMulLimb(a, Head(b), 0)),
                    IF rest = <<>> THEN <<>> ELSE <<0>> \o rest)

RECURSIVE BigSubB(_, _, _)
\* a - b for a >= b.
BigSubB(a, b, borrow) ==
    IF a = <<>> THEN <<>>
    ELSE LET y == IF b = <<>> THEN 0 ELSE Head(b)
             d == Head(a) - y - borrow
         IN  <<IF d < 0 THEN d + Base ELSE d>>
             \o BigSubB(Tail(a), IF b = <<>> THEN <<>> ELSE Tail(b),
                        IF d < 0 THEN 1 ELSE 0)

BigSub(a, b) == BigNorm(BigSubB(a, b, 0))

RECURSIVE BigLt(_, _)
BigLt(a, b) ==
    IF Len(a) # Len(b) THEN Len(a) < Len(b)
    ELSE IF a = <<>> THEN FALSE
    ELSE IF a[Len(a)] # b[Len(b)] THEN a[Len(a)] < b[Len(b)]
    ELSE BigLt(SubSeq(a, 1, Len(a) - 1), SubSeq(b, 1, Len(b) - 1))

BigLe(a, b) == a = b \/ BigLt(a, b)

RECURSIVE BigDec(_)
\* The number written in decimal, most significant digit first.
BigDec(ds) == IF ds = <<>> THEN <<>>
              ELSE BigAdd(BigNorm(BigMulLimb(BigDec(SubSeq(ds, 1, Len(ds) - 1)), 10, 0)),
                          BigFromInt(ds[Len(ds)]))

RECURSIVE u128_pow_loop(_, _, _)
u128_pow_loop(base, acc, exp) ==
    IF exp > 1
    THEN u128_pow_loop(BigMul(base, base),
                       IF exp % 2 = 1 THEN BigMul(acc, base) ELSE acc,
                       exp \div 2)
    ELSE BigMul(acc, base)

\* u128::pow (exponentiation by squaring); the operands used stay far below
\* 2^128, so no multiplication overflows.
u128_pow(base, exp) ==
    IF exp = 0 THEN BigFromInt(1) ELSE u128_pow_loop(base, BigFromInt(1), exp)

-----------------------------------------------------------------------------
\* i32 arithmetic.  A result is [panic, val]: with overflow checks enabled
\* (debug builds) an overflowing operation panics, without them (release
\* builds) it wraps modulo 2^32.

I32Max == 2147483647

I32Min == -I32Max - 1

i32_wrapping_add(a, b) ==
    IF a > 0 /\ b > 0 /\ a > I32Max - b THEN (a + I32Min) + (b + I32Min)
    ELSE IF a < 0 /\ b < 0 /\ a < I32Min - b THEN (a - I32Min) + (b - I32Min)
    ELSE a + b

\* Bit i (0..31) of the twos-complement representation of b.
i32_bit(b, i) ==
    IF i = 31 THEN (IF b < 0 THEN 1 ELSE 0)
    ELSE LET u == IF b < 0 THEN (b + I32Max) + 1 ELSE b
         IN  (u \div (2 ^ i)) % 2

RECURSIVE i32_wrapping_mul_from(_, _, _)
\* Sum over bits i.. of b of (a << i), modulo 2^32; shifted is a << i.
i32_wrapping_mul_from(shifted, b, i) ==
    IF i > 31 THEN 0
    ELSE i32_wrapping_add(IF i32_bit(b, i) = 1 THEN shifted ELSE 0,
                          i32_wrapping_mul_from(i32_wrapping_add(shifted, shifted), b, i + 1))

i32_wrapping_mul(a, b) == i32_wrapping_mul_from(a, b, 0)

\* Whether the exact product leaves the i32 range.
i32_mul_overflows(a, b) ==
    LET r == i32_wrapping_mul(a, b)
    IN  IF a = 0 \/ b = 0 THEN FALSE
        ELSE IF a = -1 THEN b = I32Min
        ELSE IF b = -1 THEN a = I32Min
        ELSE r \div a # b \/ (r \div a) * a # r

i32_mul(x, b, checks) ==
    IF x.panic THEN x
    ELSE [panic |-> checks /\ i32_mul_overflows(x.val, b),
          val   |-> i32_wrapping_mul(x.val, b)]

i32_sub(x, b, checks) ==
    IF x.panic THEN x
    ELSE [panic |-> checks /\ ((b > 0 /\ x.val < I32Min + b) \/ (b < 0 /\ x.val > I32Max + b)),
          val   |-> i32_wrapping_add(x.val, -b)]

RECURSIVE i32_pow_loop(_, _, _, _)
i32_pow_loop(base, acc, exp, checks) ==
    IF base.panic \/ acc.panic THEN [panic |-> TRUE, val |-> 0]
    ELSE IF exp > 1
    THEN LET acc2 == IF exp % 2 = 1 THEN i32_mul(acc, base.val, checks) ELSE acc
         IN  IF acc2.panic THEN acc2
             ELSE i32_pow_loop(i32_mul(base, base.val, checks), acc2, exp \div 2, checks)
    ELSE i32_mul(acc, base.val, checks)

\* i32::pow (exponentiation by squaring, inheriting the build's overflow checks).
i32_pow(base, exp, checks) ==
    IF exp = 0 THEN [panic |-> FALSE, val |-> 1]
    ELSE i32_pow_loop([panic |-> FALSE, val |-> base],
                      [panic |-> FALSE, val |-> 1], exp, checks)

-----------------------------------------------------------------------------
\* Opaque primitives: BASE32_NOPAD, SHA-256, Ed25519.

\* Characters of BASE32_NOPAD.encode of nbytes bytes.
base32_len(nbytes) == (8 * nbytes + 4) \div 5

\* format!("b{}", BASE32_NOPAD.encode(bytes)) for a value of nbytes bytes.
b_encode(bytes, nbytes) ==
    [first |-> "b", valid |-> TRUE, n |-> 1 + base32_len(nbytes), data |-> bytes]

\* Sha256 digest (32 bytes) of a message.
sha256(msg) == [sha256 |-> msg]

\* Keypair::sign: the 64-byte Ed25519 signature of msg under the secret key.
sign(keypair, msg) == [signer |-> keypair, msg |-> msg]

\* The public half of a key pair.
public_key(keypair) == [public |-> keypair]

-----------------------------------------------------------------------------
\* src/src/address.rs

\* impl Display for Identity: "@{shortname}.b{base32(public key)}".
identity_display(id) ==
    [sigil |-> "@", name |-> id.shortname, key |-> b_encode(public_key(id.keypair), 32)]

\* impl Display for ShareAddress: "+{name}.b{base32(public key)}".
share_display(sh) ==
    [sigil |-> "+", name |-> sh.name, key |-> b_encode(public_key(sh.keypair), 32)]

\* The name checks shared by Identity::new and ShareAddress::new.
name_check(name) ==
    IF ~(str_len(name) >= 1 /\ str_len(name) < 16) THEN "InvalidLength"
    ELSE IF \E i \in 1..Len(name) :
               ~is_ascii_alphanumeric(name[i]) \/ ~is_ascii_lowercase(name[i])
         THEN "InvalidCharacters"
    ELSE IF is_ascii_digit(IF name = <<>> THEN "0" ELSE name[1])
         THEN "StartsWithDigit"
    ELSE "Ok"

\* Identity::new with the key pair already resolved (supplied or generated).
Identity_new(shortname, keypair) ==
    LET status == name_check(shortname)
    IN  [shortname |-> shortname, status |-> status,
         value |-> IF status = "Ok"
                   THEN <<[shortname |-> shortname, keypair |-> keypair]>>
                   ELSE <<>>]

\* ShareAddress::new with the key pair already resolved.
ShareAddress_new(name, keypair) ==
    LET status == name_check(name)
    IN  [name |-> name, status |-> status,
         value |-> IF status = "Ok"
                   THEN <<[name |-> name, keypair |-> keypair]>>
                   ELSE <<>>]

-----------------------------------------------------------------------------
\* src/src/document.rs

MaxTextBytes == 8000

MinPathLen == 2

MaxPathLen == 512

HashLen == 53

Es5SignatureLen == 104

Es5 == <<"e", "s", ".", "5">>

\* timestamp_int >= (10 as u128).pow(13)
MinTimestamp == u128_pow(BigFromInt(10), 13)

\* timestamp_int <= (2 as u128).pow(53) - 2
MaxTimestamp == BigSub(u128_pow(BigFromInt(2), 53), BigFromInt(2))

\* SystemTime::duration_since(UNIX_EPOCH).unwrap_or_default().as_micros()
micros_since_epoch(t) ==
    IF t.pre THEN <<>>
    ELSE BigAdd(BigMul(t.secs, BigFromInt(1000000)), BigFromInt(t.nanos \div 1000))

\* Ord for SystemTime: a < b.
time_lt(a, b) ==
    IF a.pre /\ ~b.pre THEN TRUE
    ELSE IF ~a.pre /\ b.pre THEN FALSE
    ELSE IF a.pre
         THEN BigLt(b.secs, a.secs) \/ (a.secs = b.secs /\ b.nanos < a.nanos)
    ELSE BigLt(a.secs, b.secs) \/ (a.secs = b.secs /\ a.nanos < b.nanos)

\* Document::hash_text
hash_text(text) == b_encode(sha256(text), 32)

\* The Document value built at the top of Document::new.
document_of(a) ==
    [author |-> a.author, text |-> a.text,
     text_hash |-> IF a.text_hash = <<>> THEN hash_text(a.text) ELSE a.text_hash[1],
     format |-> a.format, path |-> a.path, signature |-> a.signature,
     timestamp |-> a.timestamp, share |-> a.share,
     share_signature |-> a.share_signature, delete_after |-> a.delete_after,
     attachment_size |-> a.attachment_size, attachment_hash |-> a.attachment_hash]

timestamp_as_u128(self) == micros_since_epoch(self.timestamp)

delete_after_as_u128(self) ==
    IF self.delete_after = <<>> THEN <<>> ELSE micros_since_epoch(self.delete_after[1])

\* hash_document with the share_signature line left out.
hash_document_payload_without_share_signature(self) ==
    [attachment |->
        IF self.attachment_hash # <<>> /\ self.attachment_size # <<>>
        THEN <<[attachment_hash |-> self.attachment_hash[1],
                attachment_size |-> self.attachment_size[1]]>>
        ELSE <<>>,
     author |-> identity_display(self.author),
     delete_after |-> delete_after_as_u128(self),
     format |-> self.format,
     path |-> self.path,
     share |-> share_display(self.share),
     text_hash |-> self.text_hash,
     timestamp |-> timestamp_as_u128(self)]

\* The bytes fed to the hasher by Document::hash_document, line by line.
hash_document_payload(self) ==
    [attachment |->
        IF self.attachment_hash # <<>> /\ self.attachment_size # <<>>
        THEN <<[attachment_hash |-> self.attachment_hash[1],
                attachment_size |-> self.attachment_size[1]]>>
        ELSE <<>>,
     author |-> identity_display(self.author),
     delete_after |-> delete_after_as_u128(self),
     format |-> self.format,
     path |-> self.path,
     share |-> share_display(self.share),
     share_signature |-> self.share_signature,
     text_hash |-> self.text_hash,
     timestamp |-> timestamp_as_u128(self)]

hash_document(self) == b_encode(sha256(hash_document_payload(self)), 32)

\* validate_text with the length bound made exclusive.
validate_text_exclusive_limit(self) ==
    /\ text_len(self.text) < MaxTextBytes
    /\ \/ (self.attachment_hash # <<>> /\ self.attachment_size # <<>> /\ self.text # <<>>)
       \/ (self.attachment_hash = <<>> /\ self.attachment_size = <<>> /\ self.text = <<>>)

validate_text(self) ==
    /\ text_len(self.text) <= MaxTextBytes
    /\ \/ (self.attachment_hash # <<>> /\ self.attachment_size # <<>> /\ self.text # <<>>)
       \/ (self.attachment_hash = <<>> /\ self.attachment_size = <<>> /\ self.text = <<>>)

validate_text_hash(self) ==
    /\ self.text_hash.first = "b"
    /\ self.text_hash.n = HashLen
    /\ self.text_hash.valid
    /\ self.text_hash = hash_text(self.text)

\* validate_timestamp with the upper bound made exclusive.
validate_timestamp_exclusive_max(self) ==
    LET timestamp_int == timestamp_as_u128(self)
    IN  BigLe(MinTimestamp, timestamp_int) /\ BigLt(timestamp_int, MaxTimestamp)

validate_timestamp(self) ==
    LET timestamp_int == timestamp_as_u128(self)
    IN  BigLe(MinTimestamp, timestamp_int) /\ BigLe(timestamp_int, MaxTimestamp)

validate_delete_after(self) ==
    IF self.delete_after = <<>> THEN FALSE
    ELSE LET delete_after == self.delete_after[1]
             delete_after_int == micros_since_epoch(delete_after)
         IN  /\ BigLe(MinTimestamp, delete_after_int)
             /\ BigLe(delete_after_int, MaxTimestamp)
             /\ time_lt(self.timestamp, delete_after)

validate_format(self) ==
    /\ str_is_ascii(self.format)
    /\ ~\E i \in 1..Len(self.format) : is_ascii_whitespace(self.format[i])
    /\ ~\E i \in 1..Len(self.format) : is_ascii_control(self.format[i])

\* Path::components without the root: the maximal "/"-free pieces of the path
\* that are not ".", each as <<first index, last index>>.
path_components(s) ==
    LET starts == {i \in 1..Len(s) : s[i] # "/" /\ (i = 1 \/ s[i - 1] = "/")}
        stops == {j \in 1..Len(s) : s[j] # "/" /\ (j = Len(s) \/ s[j + 1] = "/")}
        stop(i) == CHOOSE j \in stops : j >= i /\ \A k \in stops : k >= i => j <= k
    IN  {<<i, stop(i)>> : i \in {k \in starts : SubSeq(s, k, stop(k)) # <<".">>}}

\* Path::file_name: the last component unless it is "..".
path_file_name(path) ==
    LET comps == path_components(path)
        last == CHOOSE c \in comps : \A d \in comps : d[1] <= c[1]
        name == SubSeq(path, last[1], last[2])
    IN  IF comps = {} THEN <<>>
        ELSE IF name = <<".", ".">> THEN <<>>
        ELSE <<name>>

\* Path::extension: what follows the last "." of the file name, unless the
\* file name has no "." or only a leading one.
path_extension(path) ==
    LET name == path_file_name(path)
    IN  IF name = <<>> THEN <<>>
        ELSE LET f == name[1]
                 dots == {i \in 1..Len(f) : f[i] = "."}
                 last == CHOOSE i \in dots : \A j \in dots : j <= i
             IN  IF dots = {} THEN <<>>
                 ELSE IF last = 1 THEN <<>>
                 ELSE <<SubSeq(f, last + 1, Len(f))>>

ForbiddenPathChars == {"?", "#", ";", "<", ">", "U+0022", "[", "U+005C", "]", "^",
                       "{", "|", "}"}

\* validate_path accepting a missing extension when an attachment is present.
validate_path_extension_optional(self) ==
    /\ str_is_ascii(self.path)
    /\ ~\E i \in 1..Len(self.path) : is_ascii_whitespace(self.path[i])
    /\ ~\E i \in 1..Len(self.path) : is_ascii_control(self.path[i])
    /\ str_len(self.path) >= MinPathLen
    /\ str_len(self.path) <= MaxPathLen
    /\ first_char_or_default(self.path) = "/"
    /\ SubSeq(self.path, 1, 2) # <<"/", "@">>
    /\ ~str_contains(self.path, <<"/", "/">>)
    /\ \/ (self.delete_after = <<>> /\ ~str_contains(self.path, <<"!">>))
       \/ (self.delete_after # <<>> /\ str_contains(self.path, <<"!">>))
    /\ \A c \in ForbiddenPathChars : ~str_contains(self.path, <<c>>)
    /\ \/ (/\ self.attachment_hash # <<>>
           /\ self.attachment_size # <<>>)
       \/ (/\ self.attachment_hash = <<>>
           /\ self.attachment_size = <<>>
           /\ path_extension(self.path) = <<>>)
    /\ \/ ~str_contains(self.path, <<"~">>)
       \/ str_contains(self.path, <<"~", "@">> \o self.author.shortname)

validate_path(self) ==
    /\ str_is_ascii(self.path)
    /\ ~\E i \in 1..Len(self.path) : is_ascii_whitespace(self.path[i])
    /\ ~\E i \in 1..Len(self.path) : is_ascii_control(self.path[i])
    /\ str_len(self.path) >= MinPathLen
    /\ str_len(self.path) <= MaxPathLen
    /\ first_char_or_default(self.path) = "/"
    /\ SubSeq(self.path, 1, 2) # <<"/", "@">>
    /\ ~str_contains(self.path, <<"/", "/">>)
    /\ \/ (self.delete_after = <<>> /\ ~str_contains(self.path, <<"!">>))
       \/ (self.delete_after # <<>> /\ str_contains(self.path, <<"!">>))
    /\ \A c \in ForbiddenPathChars : ~str_contains(self.path, <<c>>)
    /\ \/ (/\ self.attachment_hash # <<>>
           /\ self.attachment_size # <<>>
           /\ path_extension(self.path) # <<>>)
       \/ (/\ self.attachment_hash = <<>>
           /\ self.attachment_size = <<>>
           /\ path_extension(self.path) = <<>>)
    /\ \/ ~str_contains(self.path, <<"~">>)
       \/ str_contains(self.path, <<"~", "@">> \o self.author.shortname)

\* The signature string validate_signature compares against.
expected_signature(self) ==
    b_encode(sign(self.author.keypair, hash_document(self)), 64)

validate_signature(self) ==
    /\ self.signature.first = "b"
    /\ self.signature.valid
    /\ \/ (self.format = Es5 /\ self.signature.n = Es5SignatureLen)
       \/ self.format # Es5
    /\ self.signature = expected_signature(self)

validate_share_signature(self) ==
    /\ self.share_signature.first = "b"
    /\ self.share_signature.valid
    /\ \/ (self.format = Es5 /\ self.share_signature.n = Es5SignatureLen)
       \/ self.format # Es5

\* 2_i32.pow(53) - 2 under the build's overflow checks.
attachment_size_bound(checks) == i32_sub(i32_pow(2, 53, checks), 2, checks)

\* "true", "false", or "panic" when the bound overflows with checks enabled.
\* The bound is evaluated only when attachment_size >= 0 (short-circuit &&).
validate_attachment_size(self, checks) ==
    IF self.attachment_size = <<>> THEN "false"
    ELSE LET attachment_size == self.attachment_size[1]
             bound == attachment_size_bound(checks)
         IN  IF ~(attachment_size >= 0) THEN "false"
             ELSE IF bound.panic THEN "panic"
             ELSE IF attachment_size <= bound.val THEN "true"
             ELSE "false"

validate_attachment_hash(self) ==
    IF self.attachment_hash = <<>> THEN FALSE
    ELSE LET attachment_hash == self.attachment_hash[1]
         IN  /\ attachment_hash.first = "b"
             /\ attachment_hash.n = HashLen
             /\ attachment_hash.valid

Err(kind) == [status |-> kind, document |-> <<>>]

\* Document::new: the ten checks in order, returning at the first failure.
Document_new(a, checks) ==
    LET document == document_of(a)
    IN  IF ~validate_text(document) THEN Err("InvalidText")
        ELSE IF ~validate_text_hash(document) THEN Err("InvalidTextHash")
        ELSE IF ~validate_format(document) THEN Err("InvalidFormat")
        ELSE IF ~validate_path(document) THEN Err("InvalidPath")
        ELSE IF ~validate_signature(document) THEN Err("InvalidSignature")
        ELSE IF ~validate_timestamp(document) THEN Err("InvalidTimestamp")
        ELSE IF ~validate_share_signature(document) THEN Err("InvalidShareSignature")
        ELSE IF ~validate_delete_after(document) THEN Err("InvalidDeleteAfter")
        ELSE IF validate_attachment_size(document, checks) = "panic" THEN Err("panic")
        ELSE IF validate_attachment_size(document, checks) = "false"
             THEN Err("InvalidAttachmentSize")
        ELSE IF ~validate_attachment_hash(document) THEN Err("InvalidAttachmentHash")
        ELSE [status |-> "Ok", document |-> <<document>>]

-----------------------------------------------------------------------------
\* Inputs.

\* The character c repeated n times.
Rep(c, n) == [i \in 1..n |-> c]

Bob == <<"b", "o", "b">>

Chat == <<"c", "h", "a", "t">>

\* Names offered to Identity::new.
IdentityNames == {<<>>, Bob, <<"b", "0", "b">>, <<"3", "o", "b">>, <<"B", "o", "b">>,
                  <<"b", "o", "b", "-">>, <<"c", "a", "f", "U+00E9">>,
                  Rep("a", 16), Rep("U+00E9", 8)}

\* Names offered to ShareAddress::new.
ShareNames == {<<>>, Chat, <<"c", "h", "4", "t">>, <<"4", "c", "h", "a", "t">>,
               <<"C", "h", "a", "t">>, Rep("a", 15), Rep("a", 16)}

\* The key pair a caller holds: drawn by OsRng inside the constructor or
\* supplied to it.
Keys == {"k1"}

\* The key pair of somebody else.
OtherKey == "k2"

Time(secs, nanos) == [pre |-> FALSE, secs |-> secs, nanos |-> nanos]

BeforeEpoch == [pre |-> TRUE, secs |-> BigFromInt(1), nanos |-> 0]

Epoch == Time(<<>>, 0)

\* 10^13 microseconds is 10^7 seconds; 2^53 - 2 microseconds is
\* 9007199254 seconds and 740990 microseconds.
LowSecs == BigDec(<<1, 0, 0, 0, 0, 0, 0, 0>>)

LowSecsMinus1 == BigDec(<<9, 9, 9, 9, 9, 9, 9>>)

HighSecs == BigDec(<<9, 0, 0, 7, 1, 9, 9, 2, 5, 4>>)

NowSecs == BigDec(<<1, 7, 0, 0, 0, 0, 0, 0, 0, 0>>)

Now == Time(NowSecs, 0)

Later == Time(BigDec(<<1, 7, 0, 0, 0, 8, 6, 4, 0, 0>>), 0)

\* Instants around the bounds, and instants within one microsecond of Now.
Times == {BeforeEpoch, Epoch,
          Time(LowSecsMinus1, 999999999), Time(LowSecs, 0),
          Time(HighSecs, 740990999), Time(HighSecs, 740991000),
          Now, Time(NowSecs, 1), Time(NowSecs, 1000), Later}

Hello == <<[c |-> "h", n |-> 1], [c |-> "e", n |-> 1], [c |-> "l", n |-> 2],
           [c |-> "o", n |-> 1]>>

Texts == {<<>>, Hello, <<[c |-> "x", n |-> MaxTextBytes]>>,
          <<[c |-> "x", n |-> MaxTextBytes + 1]>>}

Formats == {Es5, <<"e", "s", ".", "4">>, <<"e", "s", " ", "5">>, <<"e", "s", "U+007F">>,
            <<"U+00E9">>}

P(dir, file) == <<"/">> \o dir \o <<"/">> \o file

Posts == <<"p", "o", "s", "t", "s">>

HelloName == <<"h", "e", "l", "l", "o">>

Txt == <<".", "t", "x", "t">>

Paths == {P(Posts, HelloName), P(Posts, HelloName \o Txt),
          P(Posts, <<"!">> \o HelloName), P(Posts, <<"!">> \o HelloName \o Txt),
          <<>>, <<"/">>, Posts, <<"/", "@">> \o Bob, P(Posts, <<>>) \o <<"/", "x">>,
          <<"/", "a", "/">>, <<"/", "a", ".", "b", "/">>,
          <<"/", "p", " ", "s">>, <<"/", "p", "\t">>, <<"/", "U+00E9">>,
          <<"/", "a", "?", "b">>, <<"/", "a", "[", "b">>, <<"/", "a", "U+005C">>,
          P(Posts, <<".", "h", "i", "d">>), P(Posts, <<"h", "i", ".">>),
          P(<<"a", ".", "b">>, <<"c">>), P(Posts, <<".", ".">>),
          <<"/">> \o Rep("a", MaxPathLen - 1), <<"/">> \o Rep("a", MaxPathLen),
          P(<<"~", "@">> \o Bob, <<"n">>), P(<<"~", "@">> \o Bob \o <<"b", "y">>, <<"n">>),
          P(<<"~", "@">> \o Chat, <<"n">>), P(<<"~", "@">> \o Bob, <<"~", "@">> \o Chat),
          P(<<"~">> \o Bob, <<"n">>),
          P(<<"~", "@">> \o Bob, <<"!", "n">>), P(<<"~", "@">> \o Bob, <<"n">> \o Txt)}

AttachmentBytes == <<[c |-> "z", n |-> 5]>>

AttachmentHashes ==
    {<<>>, <<hash_text(AttachmentBytes)>>,
     <<[hash_text(AttachmentBytes) EXCEPT !.valid = FALSE]>>,
     <<[hash_text(AttachmentBytes) EXCEPT !.n = HashLen - 1]>>,
     <<[hash_text(AttachmentBytes) EXCEPT !.first = "c"]>>}

AttachmentSizes == {<<>>, <<0>>, <<5>>, <<-1>>, <<I32Max>>}

\* A 64-byte value in base32 behind a "b", and malformed variants of it.
GoodShareSignature == b_encode([bytes |-> "share-signature"], 64)

ShareSignatures ==
    {GoodShareSignature,
     [GoodShareSignature EXCEPT !.valid = FALSE],
     [GoodShareSignature EXCEPT !.first = "c"],
     b_encode([bytes |-> "short"], 62)}

\* How the caller obtains text_hash: Some(hash of the text), None, the hash of
\* another text, or a malformed string.
TextHashChoices == {"fresh", "auto", "other", "bad_base32", "no_prefix"}

\* How the caller obtains signature: signing the submitted fields, reusing the
\* signature made for the original document, or a malformed string.
SignatureChoices == {"fresh", "stale", "bad_base32", "no_prefix"}

Fields == {"author", "text", "text_hash", "format", "path", "signature",
           "timestamp", "share", "share_signature", "delete_after",
           "attachment_size", "attachment_hash"}

\* The well-formed documents a caller starts from.
BaseKinds == {"plain", "attachment", "ephemeral", "ephemeral_attachment"}

BasePlan(kind, author, sh) ==
    LET att == kind \in {"attachment", "ephemeral_attachment"}
        eph == kind \in {"ephemeral", "ephemeral_attachment"}
    IN  [author |-> author,
         text |-> IF att THEN Hello ELSE <<>>,
         text_hash |-> "fresh",
         format |-> Es5,
         path |-> P(Posts, (IF eph THEN <<"!">> ELSE <<>>) \o HelloName
                           \o (IF att THEN Txt ELSE <<>>)),
         signature |-> "fresh",
         timestamp |-> Now,
         share |-> sh,
         share_signature |-> GoodShareSignature,
         delete_after |-> IF eph THEN <<Later>> ELSE <<>>,
         attachment_size |-> IF att THEN <<5>> ELSE <<>>,
         attachment_hash |-> IF att THEN <<hash_text(AttachmentBytes)>> ELSE <<>>]

\* Other authors and shares a document can be attributed to.
OtherAuthors(author) ==
    {[author EXCEPT !.keypair = OtherKey], [author EXCEPT !.shortname = Chat]}

OtherShares(sh) ==
    {[sh EXCEPT !.keypair = OtherKey], [sh EXCEPT !.name = Bob]}

\* Values a field is swept over on its own.
FieldValues(f, base) ==
    CASE f = "author" -> OtherAuthors(base.author)
      [] f = "text" -> Texts
      [] f = "text_hash" -> TextHashChoices
      [] f = "format" -> Formats
      [] f = "path" -> Paths
      [] f = "signature" -> SignatureChoices
      [] f = "timestamp" -> Times
      [] f = "share" -> OtherShares(base.share)
      [] f = "share_signature" -> ShareSignatures
      [] f = "delete_after" -> {<<>>} \cup {<<t>> : t \in Times}
      [] f = "attachment_size" -> AttachmentSizes
      [] f = "attachment_hash" -> AttachmentHashes

\* Values fields take when several of them change together.
CoreValues(f, base) ==
    CASE f = "author" -> OtherAuthors(base.author)
      [] f = "text" -> {<<>>, Hello, <<[c |-> "x", n |-> MaxTextBytes + 1]>>}
      [] f = "text_hash" -> {"auto", "other", "bad_base32"}
      [] f = "format" -> {<<"e", "s", ".", "4">>, <<"e", "s", " ", "5">>}
      [] f = "path" -> {P(Posts, HelloName), P(Posts, HelloName \o Txt),
                        P(Posts, <<"!">> \o HelloName),
                        P(Posts, <<"!">> \o HelloName \o Txt), <<"/", "@">> \o Bob}
      [] f = "signature" -> {"stale", "bad_base32"}
      [] f = "timestamp" -> {Time(NowSecs, 1), Time(LowSecsMinus1, 999999999)}
      [] f = "share" -> OtherShares(base.share)
      [] f = "share_signature" -> {b_encode([bytes |-> "short"], 62)}
      [] f = "delete_after" -> {<<>>, <<Later>>, <<Now>>, <<Epoch>>}
      [] f = "attachment_size" -> {<<>>, <<5>>, <<-1>>}
      [] f = "attachment_hash" ->
            {<<>>, <<hash_text(AttachmentBytes)>>,
             <<[hash_text(AttachmentBytes) EXCEPT !.valid = FALSE]>>}

RECURSIVE Variants(_, _)
\* The plans that differ from base in at most k fields.
Variants(base, k) ==
    IF k = 0 THEN {base}
    ELSE LET prev == Variants(base, k - 1)
         IN  prev \cup UNION {{[p EXCEPT ![f] = v] : v \in CoreValues(f, base)} :
                              p \in prev, f \in Fields}

\* The plans that differ from base in one field, signed afresh or carrying
\* the signature of base.
Sweeps(base) ==
    UNION {{[base EXCEPT ![f] = v, !.signature = IF f = "signature" THEN v ELSE sg] :
              v \in FieldValues(f, base), sg \in {"fresh", "stale"}} : f \in Fields}

\* The arguments of Document::new that a plan stands for; signed is the
\* document whose signature a "stale" choice reuses.
Resolve(plan, signed) ==
    LET fresh_hash == hash_text(plan.text)
        text_hash ==
            CASE plan.text_hash = "fresh" -> <<fresh_hash>>
              [] plan.text_hash = "auto" -> <<>>
              [] plan.text_hash = "other" -> <<hash_text(<<[c |-> "q", n |-> 1]>>)>>
              [] plan.text_hash = "bad_base32" -> <<[fresh_hash EXCEPT !.valid = FALSE]>>
              [] plan.text_hash = "no_prefix" -> <<[fresh_hash EXCEPT !.first = "c"]>>
        unsigned == [plan EXCEPT !.text_hash = text_hash]
        fresh_sig == expected_signature(document_of(unsigned))
        signature ==
            CASE plan.signature = "fresh" -> fresh_sig
              [] plan.signature = "stale" -> expected_signature(signed)
              [] plan.signature = "bad_base32" -> [fresh_sig EXCEPT !.valid = FALSE]
              [] plan.signature = "no_prefix" -> [fresh_sig EXCEPT !.first = "c"]
    IN  [unsigned EXCEPT !.signature = signature]

\* The well-formed document of a base plan, signed by its author.
Signed(base) == document_of(Resolve(base, document_of([base EXCEPT !.text_hash = <<hash_text(base.text)>>])))

-----------------------------------------------------------------------------
\* State machine: a caller builds an author identity and a share address, then
\* submits one document.

Init == /\ overflow_checks \in BOOLEAN
        /\ identity = <<>>
        /\ share = <<>>
        /\ args = <<>>
        /\ orig = <<>>
        /\ result = <<>>
        /\ pc = "addresses"

\* Identity::new(shortname, keypair): a missing key pair is generated.
IdentityNew ==
    /\ pc = "addresses"
    /\ \E shortname \in IdentityNames, keypair \in {<<>>} \cup {<<k>> : k \in Keys} :
         \E kp \in (IF keypair = <<>> THEN Keys ELSE {keypair[1]}) :
            identity' = <<Identity_new(shortname, kp)>>
    /\ UNCHANGED <<overflow_checks, share, args, orig, result, pc>>

\* ShareAddress::new(name, keypair).
ShareAddressNew ==
    /\ pc = "addresses"
    /\ \E name \in ShareNames, keypair \in {<<>>} \cup {<<k>> : k \in Keys} :
         \E kp \in (IF keypair = <<>> THEN Keys ELSE {keypair[1]}) :
            share' = <<ShareAddress_new(name, kp)>>
    /\ UNCHANGED <<overflow_checks, identity, args, orig, result, pc>>

\* Document::new(...) with the addresses built before; they move into the call.
DocumentNew ==
    /\ pc = "addresses"
    /\ identity # <<>> /\ identity[1].status = "Ok"
    /\ share # <<>> /\ share[1].status = "Ok"
    /\ \E kind \in BaseKinds :
         LET base == BasePlan(kind, identity[1].value[1], share[1].value[1])
             signed == Signed(base)
         IN  \E plan \in Variants(base, MaxDeviations) \cup Sweeps(base) :
                LET a == Resolve(plan, signed)
                IN  /\ args' = <<a>>
                    /\ orig' = <<signed>>
                    /\ result' = <<Document_new(a, overflow_checks)>>
    /\ identity' = <<>>
    /\ share' = <<>>
    /\ pc' = "done"
    /\ UNCHANGED overflow_checks

Next == IdentityNew \/ ShareAddressNew \/ DocumentNew

Spec == Init /\ [][Next]_vars

-----------------------------------------------------------------------------
\* Vocabulary of the properties.

ErrorKinds == <<"InvalidText", "InvalidTextHash", "InvalidFormat", "InvalidPath",
                "InvalidSignature", "InvalidTimestamp", "InvalidShareSignature",
                "InvalidDeleteAfter", "InvalidAttachmentSize", "InvalidAttachmentHash">>

Submitted == pc = "done"

\* The candidate document of the submitted call, and the status it returned.
Candidate == document_of(args[1])

Status == result[1].status

\* Number of leading checks that passed: k - 1 for Err(E_k), 10 for Ok, and 8
\* when the ninth check aborted.
ChecksPassed ==
    IF Status = "Ok" THEN 10
    ELSE IF Status = "panic" THEN 8
    ELSE (CHOOSE k \in 1..10 : ErrorKinds[k] = Status) - 1

AttachmentPresent(d) == d.attachment_hash # <<>> /\ d.attachment_size # <<>>

AttachmentAbsent(d) == d.attachment_hash = <<>> /\ d.attachment_size = <<>>

\* 10^13 and 2^53 - 2 written out.
TenToThe13 == BigDec(<<1, 0, 0, 0, 0, 0, 0, 0, 0, 0, 0, 0, 0, 0>>)

TwoToThe53Minus2 == BigDec(<<9, 0, 0, 7, 1, 9, 9, 2, 5, 4, 7, 4, 0, 9, 9, 0>>)

InTimestampRange(m) == BigLe(TenToThe13, m) /\ BigLe(m, TwoToThe53Minus2)

-----------------------------------------------------------------------------
\* Whether check k of Document::new fails on document d.
C1_Fails(d, k) ==
    CASE k = 1 -> ~validate_text(d)
      [] k = 2 -> ~validate_text_hash(d)
      [] k = 3 -> ~validate_format(d)
      [] k = 4 -> ~validate_path(d)
      [] k = 5 -> ~validate_signature(d)
      [] k = 6 -> ~validate_timestamp(d)
      [] k = 7 -> ~validate_share_signature(d)
      [] k = 8 -> ~validate_delete_after(d)
      [] k = 9 -> validate_attachment_size(d, overflow_checks) = "false"
      [] k = 10 -> ~validate_attachment_hash(d)

\* C1: Document::new evaluates the ten checks in the fixed order and returns
\* Err(E_k) exactly when check k is the lowest-numbered failing check, and
\* Ok(document) exactly when all ten pass; no document comes with an error.
\* (Stated as claimed; the code violates it where check 9 aborts.)
C1_FirstFailingCheckDecidesResult ==
    Submitted =>
        LET failing == {k \in 1..10 : C1_Fails(Candidate, k)}
            lowest == CHOOSE k \in failing : \A j \in failing : k <= j
        IN  IF failing = {}
            THEN result[1] = [status |-> "Ok", document |-> <<Candidate>>]
            ELSE result[1] = [status |-> ErrorKinds[lowest], document |-> <<>>]

\* C2: checks 8, 9 and 10 pass when their field is absent, so a document with
\* no delete_after, no attachment_size and no attachment_hash whose checks 1-7
\* pass is returned as Ok.  (Stated as claimed; the code rejects absent fields.)
C2_AbsentOptionalFieldsPass ==
    Submitted =>
        /\ (Candidate.delete_after = <<>> /\ ChecksPassed >= 7) => ChecksPassed >= 8
        /\ (/\ Candidate.delete_after = <<>>
            /\ Candidate.attachment_size = <<>>
            /\ Candidate.attachment_hash = <<>>
            /\ ChecksPassed >= 7) => Status = "Ok"

\* C3: Identity::new and ShareAddress::new succeed exactly for names of 1 to 15
\* characters, all lowercase ASCII letters or digits, not starting with a
\* digit; otherwise InvalidLength, else InvalidCharacters, else
\* StartsWithDigit.  (Stated as claimed; the code rejects every digit.)
C3_ExpectedStatus(name) ==
    IF Len(name) = 0 \/ Len(name) >= 16 THEN "InvalidLength"
    ELSE IF \E i \in 1..Len(name) : name[i] \notin Lowercase \cup Digits
         THEN "InvalidCharacters"
    ELSE IF name[1] \in Digits THEN "StartsWithDigit"
    ELSE "Ok"

C3_NameValidation ==
    /\ identity # <<>> =>
          /\ identity[1].status = C3_ExpectedStatus(identity[1].shortname)
          /\ (identity[1].value # <<>>) = (identity[1].status = "Ok")
    /\ share # <<>> =>
          /\ share[1].status = C3_ExpectedStatus(share[1].name)
          /\ (share[1].value # <<>>) = (share[1].status = "Ok")

\* C4: check 1 passes exactly when the text has at most 8000 bytes and either
\* both attachment fields are present and the text is non-empty, or both are
\* absent and the text is empty; every document that gets past check 1 (so
\* every document returned) has both attachment fields or neither.
C4_TextCheck ==
    Submitted =>
        LET d == Candidate
            passes == /\ text_len(d.text) <= 8000
                      /\ \/ (AttachmentPresent(d) /\ text_len(d.text) > 0)
                         \/ (AttachmentAbsent(d) /\ text_len(d.text) = 0)
        IN  /\ (Status # "InvalidText") = passes
            /\ Status # "InvalidText" => (AttachmentPresent(d) \/ AttachmentAbsent(d))
            /\ result[1].document # <<>> =>
                  (AttachmentPresent(result[1].document[1])
                   \/ AttachmentAbsent(result[1].document[1]))

\* Reached: a text of exactly 8000 bytes with attachment fields passes check 1.
C4_Witness ==
    /\ Submitted
    /\ text_len(Candidate.text) = 8000
    /\ AttachmentPresent(Candidate)
    /\ Status # "InvalidText"

\* C5: with attachment_size present, check 9 passes exactly when
\* 0 <= attachment_size <= 2^53 - 2, and evaluating it never overflows or
\* aborts: every non-negative size moves on to check 10.  (Stated as claimed;
\* the code computes the bound in i32.)
C5_AttachmentSizeCheck ==
    (Submitted /\ Candidate.attachment_size # <<>> /\ ChecksPassed >= 8) =>
        IF Candidate.attachment_size[1] >= 0
        THEN Status \in {"InvalidAttachmentHash", "Ok"}
        ELSE Status = "InvalidAttachmentSize"

\* The fields of a document as the claim of C6 lists them, and as
\* hash_document serialises them.
C6_RawFields(d) ==
    <<<<identity_display(d.author)>>, <<d.path>>, <<d.format>>, <<d.timestamp>>,
      <<share_display(d.share)>>, <<d.share_signature>>, <<d.text_hash>>,
      <<d.delete_after>>, <<d.attachment_hash>>, <<d.attachment_size>>>>

C6_SerialisedFields(d) ==
    <<<<identity_display(d.author)>>, <<d.path>>, <<d.format>>,
      <<micros_since_epoch(d.timestamp)>>,
      <<share_display(d.share)>>, <<d.share_signature>>, <<d.text_hash>>,
      <<IF d.delete_after = <<>> THEN <<>> ELSE micros_since_epoch(d.delete_after[1])>>,
      <<IF AttachmentPresent(d) THEN <<d.attachment_hash[1]>> ELSE <<>>>>,
      <<IF AttachmentPresent(d) THEN <<d.attachment_size[1]>> ELSE <<>>>>>>

C6_Differences(x, y) == Cardinality({i \in 1..Len(x) : x[i] # y[i]})

\* C6 as claimed: two documents that differ in a single field (author display
\* form, path, format, timestamp, share display form, share_signature,
\* text_hash, delete_after, attachment_hash, attachment_size) have different
\* hash_document() values, and the old signature fails check 5 on the new
\* fields; identical fields give the same hash.
C6_TamperSensitivityOfFields ==
    Submitted =>
        LET d == Candidate
            o == orig[1]
            n == C6_Differences(C6_RawFields(d), C6_RawFields(o))
        IN  /\ n = 1 => /\ hash_document(d) # hash_document(o)
                        /\ d.signature = o.signature => ~validate_signature(d)
            /\ n = 0 => hash_document(d) = hash_document(o)

\* C6 as amended: the same for the values hash_document serialises, that is
\* with timestamp and delete_after in whole microseconds since the epoch, an
\* absent delete_after counted as 0, and attachment_hash and attachment_size
\* counted only when both are present.
C6_TamperSensitivity ==
    Submitted =>
        LET d == Candidate
            o == orig[1]
            n == C6_Differences(C6_SerialisedFields(d), C6_SerialisedFields(o))
        IN  /\ n = 1 => /\ hash_document(d) # hash_document(o)
                        /\ d.signature = o.signature =>
                              /\ ~validate_signature(d)
                              /\ ChecksPassed <= 4
            /\ n = 0 => hash_document(d) = hash_document(o)

\* Reached: a document differing from the signed one in one serialised value,
\* carrying the old signature, is turned down by check 5.
C6_Witness ==
    /\ Submitted
    /\ C6_Differences(C6_SerialisedFields(Candidate), C6_SerialisedFields(orig[1])) = 1
    /\ Candidate.signature = orig[1].signature
    /\ Status = "InvalidSignature"

\* The rules of check 4 that look at the path alone (and the author's name).
C7_SyntacticallyValid(path, shortname) ==
    /\ \A i \in 1..Len(path) :
          path[i] \in (Lowercase \cup Uppercase \cup Digits \cup Punctuation)
                      \ ForbiddenPathChars
    /\ Len(path) >= 2 /\ Len(path) <= 512
    /\ path[1] = "/"
    /\ path[2] # "@"
    /\ \A i \in 1..(Len(path) - 1) : ~(path[i] = "/" /\ path[i + 1] = "/")
    /\ (\E i \in 1..Len(path) : path[i] = "~")
          => str_contains(path, <<"~", "@">> \o shortname)

\* C7: among syntactically valid paths, check 4 passes exactly when the path
\* contains "!" iff delete_after is present, and has a file extension iff the
\* attachment fields are present.
C7_PathTiedToOptionalFields ==
    (/\ Submitted
     /\ ChecksPassed >= 3
     /\ C7_SyntacticallyValid(Candidate.path, Candidate.author.shortname)) =>
        LET d == Candidate
            bang == \E i \in 1..Len(d.path) : d.path[i] = "!"
        IN  (Status # "InvalidPath")
              = /\ bang = (d.delete_after # <<>>)
                /\ (path_extension(d.path) # <<>>) = AttachmentPresent(d)

\* Reached: /posts/hello.txt with attachment fields passes check 4.
C7_Witness ==
    /\ Submitted
    /\ Candidate.path = P(Posts, HelloName \o Txt)
    /\ AttachmentPresent(Candidate)
    /\ ChecksPassed >= 4

\* C8: with delete_after present, check 8 passes exactly when its whole
\* microseconds lie in [10^13, 2^53 - 2] and exceed the whole microseconds of
\* timestamp.  (Stated as claimed; the code compares the instants.)
C8_DeleteAfterCheck ==
    (Submitted /\ Candidate.delete_after # <<>> /\ ChecksPassed >= 7) =>
        LET da == micros_since_epoch(Candidate.delete_after[1])
            ts == micros_since_epoch(Candidate.timestamp)
        IN  (Status # "InvalidDeleteAfter") = (InTimestampRange(da) /\ BigLt(ts, da))

\* C9: check 6 passes exactly when the whole microseconds of timestamp lie in
\* [10^13, 2^53 - 2]; 10^13 - 1 and 2^53 - 1 are rejected, 10^13 and 2^53 - 2
\* pass, and an instant before the epoch counts as 0 and is rejected.
C9_TimestampCheck ==
    (Submitted /\ ChecksPassed >= 5) =>
        LET t == Candidate.timestamp
            passes == Status # "InvalidTimestamp"
        IN  /\ passes = (~t.pre /\ InTimestampRange(micros_since_epoch(t)))
            /\ t = Time(LowSecsMinus1, 999999999) => ~passes
            /\ t = Time(LowSecs, 0) => passes
            /\ t = Time(HighSecs, 740990999) => passes
            /\ t = Time(HighSecs, 740991000) => ~passes
            /\ t.pre => ~passes

\* Reached: a timestamp of 2^53 - 2 microseconds passes check 6.
C9_Witness ==
    /\ Submitted
    /\ Candidate.timestamp = Time(HighSecs, 740990999)
    /\ ChecksPassed >= 6

\* C10: check 4 accepts a path containing "~" only if every "~" in it begins
\* "~@<author.shortname>" followed by "/" or the end of the path.  (Stated as
\* claimed; the code only looks for the substring.)
C10_AuthorScopedTilde ==
    (Submitted /\ ChecksPassed >= 4) =>
        LET path == Candidate.path
            marker == <<"~", "@">> \o Candidate.author.shortname
        IN  \A i \in 1..Len(path) :
               path[i] = "~" =>
                  /\ i + Len(marker) - 1 <= Len(path)
                  /\ SubSeq(path, i, i + Len(marker) - 1) = marker
                  /\ (i + Len(marker) - 1 = Len(path) \/ path[i + Len(marker)] = "/")
====
